---- MODULE Spec2Model ----
(***************************************************************************)
(* The agent runtime of figaro: one Request (src/figaro/figaro.go) driving *)
(* the stream -> tool-use -> tool-result -> restream cycle, the LLM stream *)
(* handle it consumes, the MCP tools/call it issues, and the forum         *)
(* goroutine (src/forum/forum.go) that reads the unbuffered event channel  *)
(* made in main (src/main.go).                                             *)
(*                                                                         *)
(* The packages anthropicbridge, jsonrpc and mcp are not part of the       *)
(* sources at hand; the stream handle (Bridge* actions) and the outcome of *)
(* a tools/call (SendMessageOutcomes) follow sections 4.2, 4.3 and 4.5 of  *)
(* the specification.                                                      *)
(***************************************************************************)
EXTENDS Integers, Sequences, FiniteSets, TLC

\* ------------------------------------------------------------------ bounds

\* shouldDisrupt: the loop is disrupted as soon as i reaches this count.
MaxIterations == 10

\* Text deltas one LLM stream yields at most.
MaxDeltas == 2

\* Content blocks of one assistant message at most.
MaxBlocks == 2

\* Assistant turns in which the LLM of a "rich" run asks for tools at most.
MaxRounds == 1

\* MCP clients of a tool registry at most.
MaxClients == 2

\* LLM requests of one invocation at most, where only their parameters count.
MaxRequests == 2

\* Calls made on one JSON-RPC peer at most.
MaxCalls == 3

\* Runs of the figaro command on one directory at most.
MaxCommands == 3

\* Assistant messages streamed in one session of the forum at most.
MaxMessages == 3

\* Responses a server sends again, for a request it has answered, at most.
MaxDuplicates == 1

\* Tools in the catalogue of one MCP client at most.
MaxTools == 2

\* Lookups of one session of the tool registry at most.
MaxLookups == 2

\* Server definitions in the server registry at most.
MaxServers == 2

\* Events one Request sends on the update channel at most.
MaxEvents == 2

\* ------------------------------------------------------------------ values

None == [none |-> TRUE]

StopReasons == {"end_turn", "tool_use", "max_tokens"}

\* Raw input_json of a tool_use block: a JSON object, or JSON that is none.
GoodInput == "{\"text\":\"foo\"}"
BadInput == "[1]"
Inputs == {GoodInput, BadInput}

\* The positional arguments of the invocation.
Args == <<"say", "hi">>

\* The cached tool names of every MCP client, in registration order.
ClientTools == << <<"echo">>, <<"read", "echo">> >>

VARIABLES
    pc,           \* where Request stands
    conversation, \* []anthropic.MessageParam of Request / agentLoop
    message,      \* *anthropic.Message last returned by streamMessage
    i,            \* agentLoop's iteration counter
    inLoop,       \* streamMessage was called from agentLoop (line 287), not Request (line 244)
    hasStarted,   \* handleStream's local
    stream,       \* the ConsoleStreamable of the stream in progress
    k,            \* callTools: index of the block being dispatched
    tools,        \* callTools: map tool_use id -> response
    inflight,     \* tools/call requests issued and not yet returned
    dispatched,   \* ids of the tools/call requests of this turn, in issue order
    sendRet,      \* callTools: what its last SendMessage returned
    err,          \* what Request returned
    sink,         \* content of ~/.figaro/.conversation.json
    consumer,     \* the forum goroutine: "running" in its select loop, or "stopped"
    events,       \* events received on update for the stream last started, until
                  \* agentLoop takes up its message
    streams,      \* calls of the bridge's StreamMessage made by this Request
    env,          \* what the collaborators of this run may do: "rich" or "plain"
    clients,      \* Figaro.clients: the cached Tools of every MCP client
    toolsCache,   \* Figaro.toolsCache
    got,          \* what the last call of GetAllTools returned
    lookups,      \* the calls of GetClientForTool made and what they returned
    mainPc,       \* where main, or SummonFigaro called by it, stands
    servers,      \* the server registry main got from getServers
    srv,          \* SummonFigaro: index of the server being set up
    connCtx,      \* per server: its connCtx ("none", "live", "cancelled")
    rpcCtx,       \* per server: its rpcCtx ("none", "live", "cancelled")
    connDone,     \* per server: what its connectionDone signal fired with
    rootCause,    \* the cause SummonFigaro's ctx was cancelled with
    mcpClients,   \* SummonFigaro: its slice of client wrappers
    unwind,       \* SummonFigaro: the calls left on its failure path
    summoned,     \* what SummonFigaro returned
    deferred,     \* main: its deferred calls, last deferred first
    panicking,    \* main is unwinding from a panic
    update,       \* the update channel: closes, sends, sends after a close
    requestRet,   \* main: what figaro.Request returned
    modePtr,      \* main: the value of the -m flag
    requests,     \* the MessageNewParams of the LLM requests issued
    peer,         \* a JSON-RPC peer: its id counter, pending table, lines, callers
    watcherPc,    \* per server: where its two watcher goroutines stand
    forum,        \* the forum goroutine: its buffer sb, what it rendered; the events sent to it
    la            \* the conversation files on disk and the outcome of the last figaro command

vars == <<pc, conversation, message, i, inLoop, hasStarted, stream, k, tools,
          inflight, dispatched, sendRet, err, sink, consumer, events, streams,
          env, clients, toolsCache, got, lookups, mainPc, servers, srv,
          connCtx, rpcCtx, connDone, rootCause, mcpClients, unwind, summoned,
          deferred, panicking, update, requestRet, modePtr, requests,
          peer, watcherPc, forum, la>>

\* The variables of a Request, but for the tools cache it fills.
agentVars == <<pc, conversation, message, i, inLoop, hasStarted, stream, k,
               tools, inflight, dispatched, sendRet, err, sink, consumer,
               events, streams, env>>

\* The variables of the tool registry that a Request only reads.
registryVars == <<clients, got, lookups>>

\* The variables of main and SummonFigaro.
supervisorVars == <<mainPc, servers, srv, connCtx, rpcCtx, connDone, rootCause,
                    mcpClients, unwind, summoned, deferred, panicking, update,
                    requestRet>>

\* The variables of the parts of the program taken by themselves.
auxVars == <<modePtr, requests, peer, watcherPc, forum, la>>

\* A JSON-RPC peer on a connection just opened: ids are allocated from 1, no
\* slot is pending, no line has been written or read.
PeerFresh ==
    [state |-> "open", nextId |-> 1, pending |-> {}, writing |-> {},
     server |-> {}, answered |-> {}, repeats |-> 0, inbound |-> <<>>,
     read |-> <<>>, done |-> <<>>]

\* The forum goroutine at its select, its strings.Builder empty, and a
\* session in which no message has been streamed yet.
ForumFresh ==
    [state |-> "running", sb |-> "", rendered |-> <<>>, texts |-> <<>>,
     text |-> "", sent |-> 0, returned |-> FALSE]

\* The names a conversation can be given with -c and -f.
ConvNames == {"a", "b"}

\* A Conversation value; parent "" is the nil Parent pointer.
Conversation(name, messages, parent) ==
    [name |-> name, messages |-> messages, parent |-> parent]

\* No conversation file on disk and no figaro command run yet.
LaFresh ==
    [files |-> [n \in ConvNames |->
                    [exists |-> FALSE, conv |-> Conversation(n, <<>>, "")]],
     ret |-> "none", conv |-> Conversation("", <<>>, ""), sent |-> <<>>,
     runs |-> 0]

\* None of these parts has run.
AuxIdle ==
    /\ modePtr = "ModelClaude3_7SonnetLatest"
    /\ requests = <<>>
    /\ peer = PeerFresh
    /\ watcherPc = <<>>
    /\ forum = ForumFresh
    /\ la = LaFresh

\* A context that has not been cancelled has no cause.
NotCancelled == "not cancelled"

\* main has not started.
SupervisorIdle ==
    /\ mainPc = "idle"
    /\ servers = [DockerServers |-> <<>>]
    /\ srv = 0
    /\ connCtx = <<>>
    /\ rpcCtx = <<>>
    /\ connDone = <<>>
    /\ rootCause = NotCancelled
    /\ mcpClients = <<>>
    /\ unwind = <<>>
    /\ summoned = None
    /\ deferred = <<>>
    /\ panicking = FALSE
    /\ update = [closes |-> 0, sent |-> 0, sentClosed |-> FALSE]
    /\ requestRet = "none"

\* A "rich" run explores the messages and the tools over a short request:
\* the LLM answers with any message of AllMessages but asks for tools in at
\* most MaxRounds turns and streams no text delta, and a tool may report
\* isError.  A "plain" run explores the streams, the forum and the host file
\* over a long request: the LLM answers with one-block messages for as long
\* as the loop asks and streams up to MaxDeltas deltas, a rendering by the
\* forum and a write of the host file may fail.  In both, a stream may fail
\* and the transport of a tools/call may fail.
Envs == {"rich", "plain"}

\* ------------------------------------------------------- content blocks

TextBlock(text) == [type |-> "text", text |-> text]

ToolUseBlock(id, name, input) ==
    [type |-> "tool_use", id |-> id, name |-> name, input |-> input]

\* anthropic.ToolResultBlockParam with one text content item.
ToolResultBlock(id, text) ==
    [type |-> "tool_result", tool_use_id |-> id, content |-> text]

\* The id the LLM gives the tool_use block at position p of its s-th answer.
NewId(s, p) == "u" \o ToString(s) \o "_" \o ToString(p)

\* A text block, or a tool_use block: for an unknown tool, or for a known
\* one with either input.
BlocksAt(s, p) ==
    {TextBlock("hi"), ToolUseBlock(NewId(s, p), "nope", GoodInput)} \cup
    {ToolUseBlock(NewId(s, p), "echo", inp) : inp \in Inputs}

RECURSIVE ContentsOfLen(_, _)
ContentsOfLen(s, n) ==
    IF n = 0 THEN {<<>>}
    ELSE {Append(c, b) : c \in ContentsOfLen(s, n - 1), b \in BlocksAt(s, n)}

\* The assistant messages the s-th stream of a request may assemble.
AllMessages(s) ==
    {[stop |-> st, content |-> c] :
        st \in StopReasons, c \in UNION {ContentsOfLen(s, n) : n \in 0..MaxBlocks}}

\* One block: a tool_use block when the turn stops for tool use, else text.
PlainMessages(s) ==
    {m \in AllMessages(s) :
        /\ Len(m.content) = 1
        /\ (m.stop = "tool_use") <=> (m.content[1].type = "tool_use")}

Messages(e, s) ==
    IF e = "plain" THEN PlainMessages(s)
    ELSE IF s <= MaxRounds THEN AllMessages(s)
    ELSE {m \in PlainMessages(s) : m.stop # "tool_use"}

\* The n-th text delta of a stream.
DeltaText(n) == "d" \o ToString(n)

\* ------------------------------------------------------- tool registry

\* mcp.Client.ContainsTool: the name is in the client's cached catalogue.
ContainsTool(c, toolName) ==
    \E t \in 1..Len(clients[c]) : clients[c][t] = toolName

\* The range over figaro.clients from client c on: the first client that
\* contains the tool is returned; 0 is nil.
RECURSIVE ClientFrom(_, _)
ClientFrom(c, toolName) ==
    IF c > Len(clients) THEN 0
    ELSE IF ContainsTool(c, toolName) THEN c
    ELSE ClientFrom(c + 1, toolName)

\* GetClientForTool, its range keeping the last client that contains the tool.
RECURSIVE LastClientFrom(_, _, _)
LastClientFrom(c, toolName, found) ==
    IF c > Len(clients) THEN found
    ELSE LastClientFrom(c + 1, toolName,
                        IF ContainsTool(c, toolName) THEN c ELSE found)

GetClientForToolLast(toolName) == LastClientFrom(1, toolName, 0)

GetClientForTool(toolName) == ClientFrom(1, toolName)

\* The names a tool may have, and the names a lookup may ask for.
ToolNames == {"echo", "read"}
LookupNames == ToolNames \cup {"nope"}

\* The catalogues of at most n tools.
RECURSIVE Catalogues(_)
Catalogues(n) ==
    IF n = 0 THEN {<<>>}
    ELSE Catalogues(n - 1) \cup
         {Append(c, t) : c \in {d \in Catalogues(n - 1) : Len(d) = n - 1},
                         t \in ToolNames}

\* The registries of at most n clients.
RECURSIVE Registries(_)
Registries(n) ==
    IF n = 0 THEN {<<>>}
    ELSE Registries(n - 1) \cup
         {Append(r, c) : r \in {q \in Registries(n - 1) : Len(q) = n - 1},
                         c \in Catalogues(MaxTools)}

\* The zero value of mcp.Tool, by its name.
ZeroTool == ""

\* cumToolSize: the sum of len(client.Tools) over the clients from c on.
RECURSIVE CumToolSize(_)
CumToolSize(c) ==
    IF c > Len(clients) THEN 0 ELSE Len(clients[c]) + CumToolSize(c + 1)

\* result[index] = tool, index counted from 0; an index that is not below
\* len(result) panics.
StoreTool(result, index, tool) ==
    IF ~result.ok THEN result
    ELSE IF index >= Len(result.tools)
    THEN [ok |-> FALSE, panic |-> "index out of range"]
    ELSE [result EXCEPT !.tools[index + 1] = tool]

\* The two nested ranges of GetAllTools from tool j of client c on, c and j
\* counted from 1: tool j of client c is stored at index (c - 1) + (j - 1).
RECURSIVE FillTools(_, _, _)
FillTools(c, j, result) ==
    IF c > Len(clients) THEN result
    ELSE IF j > Len(clients[c]) THEN FillTools(c + 1, 1, result)
    ELSE FillTools(c, j + 1, StoreTool(result, (c - 1) + (j - 1), clients[c][j]))

\* GetAllTools: the cache if there is one; else the slice it fills, which
\* it caches, or the panic of the fill.
GetAllTools ==
    IF toolsCache # None THEN [ok |-> TRUE, tools |-> toolsCache.tools]
    ELSE FillTools(1, 1, [ok |-> TRUE,
                          tools |-> [n \in 1..CumToolSize(1) |-> ZeroTool]])

\* ------------------------------------------------------- tools/call

\* The result object of an MCP tools/call: one text item, and the isError flag.
CallToolResult(text, isError) ==
    [kind |-> "map",
     content |-> <<[type |-> "text", text |-> text]>>,
     isError |-> isError]

\* What client.SendMessage(ctx, "tools/call", ...) comes back with: a
\* response carrying the result object, or an error of the transport
\* (subprocess dead, connection closed).
SendMessageOutcomes(e) ==
    {[ok |-> TRUE, response |-> [result |-> CallToolResult("foo", FALSE)]],
     [ok |-> FALSE, error |-> "connection closed"]}
    \cup
    (IF e = "rich"
     THEN {[ok |-> TRUE,
            response |-> [result |-> CallToolResult("file not found", TRUE)]]}
     ELSE {})

\* writeHostFile returns nil (TRUE) or an error (FALSE).
WriteOutcomes(e) == IF e = "plain" THEN BOOLEAN ELSE {TRUE}

\* glamour's rendering succeeds (TRUE) or fails (FALSE).
RenderOutcomes(e) == IF e = "plain" THEN BOOLEAN ELSE {TRUE}

\* Text deltas a stream yields at most.
DeltasIn(e) == IF e = "plain" THEN MaxDeltas ELSE 0

\* json.Unmarshal(variant.Input, &args) into a map[string]any succeeds on a
\* JSON object only.
UnmarshalOk(input) == input = GoodInput

\* json.Marshal of the result object: keys in sorted order.
jsonMarshal(v) ==
    "{\"content\":[{\"text\":\"" \o v.content[1].text \o "\",\"type\":\"text\"}]"
    \o (IF v.isError THEN ",\"isError\":true" ELSE "") \o "}"

anyToString(v) ==
    CASE v.kind = "string" -> v.val
      [] v.kind = "map" -> jsonMarshal(v)
      [] OTHER -> "<nil>"

createToolResultBlock(id, toolResponse) ==
    ToolResultBlock(id, anyToString(toolResponse.result))

\* ------------------------------------------------------- conversation

\* A turn; stop records the StopReason of the message an assistant turn was
\* built from ("" for a user turn), which the MessageParam itself drops.
Turn(role, content, stop) == [role |-> role, content |-> content, stop |-> stop]

\* strings.Join(args, " ")
RECURSIVE Join(_)
Join(args) ==
    IF Len(args) = 0 THEN ""
    ELSE IF Len(args) = 1 THEN args[1]
    ELSE args[1] \o " " \o Join(Tail(args))

createMessageParam(input, role) == Turn(role, <<TextBlock(input)>>, "")

\* content.ToParam(): the response block as a request block.
ToParam(block) ==
    IF block.type = "tool_use"
    THEN ToolUseBlock(block.id, block.name, block.input)
    ELSE TextBlock(block.text)

\* appendMessage, putting the message in place of the last turn.
appendMessageOverLast(conv, msg) ==
    [conv EXCEPT ![Len(conv)] =
        Turn("assistant",
             [p \in 1..Len(msg.content) |-> ToParam(msg.content[p])],
             msg.stop)]

appendMessage(conv, msg) ==
    Append(conv,
           Turn("assistant",
                [p \in 1..Len(msg.content) |-> ToParam(msg.content[p])],
                msg.stop))

shouldDisrupt(n) ==
    IF n < MaxIterations THEN "nil" ELSE "Maximum iteration count was exhausted."

\* The orders in which a range over a Go map may visit its keys.
Orders(S) ==
    {o \in [1..Cardinality(S) -> S] :
        \A a, b \in 1..Cardinality(S) : a # b => o[a] # o[b]}

\* ------------------------------------------------------- events, forum

Event(type, data) == [type |-> type, data |-> data]

\* The forum goroutine's handling of one received event: it goes on reading,
\* unless the event is message_ended and rendering the buffer fails, which
\* breaks its loop.
ForumReceive(event, renderOk) ==
    IF event.type = "message_ended" /\ ~renderOk THEN "stopped" ELSE "running"

\* ------------------------------------------------------- initial state

Init ==
    /\ pc = "Request"
    /\ conversation = <<>>
    /\ message = None
    /\ i = 0
    /\ inLoop = FALSE
    /\ hasStarted = FALSE
    /\ stream = None
    /\ k = 0
    /\ tools = <<>>
    /\ inflight = {}
    /\ dispatched = <<>>
    /\ sendRet = None
    /\ err = None
    /\ sink = None
    /\ consumer = "running"
    /\ events = <<>>
    /\ streams = 0
    /\ env \in Envs
    /\ clients = ClientTools
    /\ toolsCache = None
    /\ got = None
    /\ lookups = <<>>
    /\ SupervisorIdle
    /\ AuxIdle

\* Request returns e ("nil" for no error).
Return(e) ==
    /\ pc' = "done"
    /\ err' = e

\* ------------------------------------------------------- Request

\* Request up to its first streamMessage call.
Request ==
    /\ pc = "Request"
    /\ \E initOk \in BOOLEAN :
        IF initOk
        THEN /\ conversation' = <<createMessageParam(Join(Args), "user")>>
             /\ pc' = "streamMessage"
             /\ err' = err
        ELSE /\ Return("failed to initialize Anthropic client")
             /\ conversation' = conversation
    /\ UNCHANGED <<message, i, inLoop, hasStarted, stream, k, tools, inflight,
                   dispatched, sink, consumer, events, streams, env,
                   sendRet,
                   toolsCache, registryVars, supervisorVars, auxVars>>

\* streamMessage up to its handleStream call: the tools are collected (a
\* panic of GetAllTools unwinds the Request) and the stream is requested.
streamMessage ==
    /\ pc = "streamMessage"
    /\ IF ~GetAllTools.ok
       THEN /\ pc' = "panic"
            /\ UNCHANGED <<streams, stream, hasStarted, events, err, message,
                           conversation, toolsCache>>
       ELSE /\ toolsCache' = [tools |-> GetAllTools.tools]
            /\ streams' = streams + 1
            /\ \E ok \in BOOLEAN :
                IF ok
                THEN /\ stream' = [progress |-> "open", sent |-> 0,
                                   result |-> FALSE, error |-> FALSE]
                     /\ hasStarted' = FALSE
                     /\ events' = <<>>
                     /\ pc' = "handleStream"
                     /\ UNCHANGED <<err, message, conversation>>
                ELSE /\ Return("stream request failed")
                     /\ message' = None
                     /\ conversation' = <<>>
                     /\ UNCHANGED <<stream, hasStarted, events>>
    /\ UNCHANGED <<i, inLoop, k, tools, inflight, dispatched, sendRet, sink,
                   consumer, env, registryVars, supervisorVars, auxVars>>

\* The content of the host file after writeHostFile wrote the conversation.
Written(conv) == [conversation |-> conv]

\* streamMessageReturn, agentLoop returning the error of a failed write.
streamMessageReturnFatal(msg) ==
    /\ message' = msg
    /\ conversation' = appendMessage(conversation, msg)
    /\ IF inLoop
       THEN \E written \in WriteOutcomes(env) :
                IF written
                THEN sink' = Written(conversation') /\ i' = i + 1 /\ pc' = "agentLoop"
                ELSE sink' = sink /\ i' = i /\ pc' = "done"
       ELSE /\ sink' = sink
            /\ i' = 0
            /\ pc' = "agentLoop"

\* handleStream has returned msg: streamMessage appends it, and its caller
\* goes on: Request enters agentLoop; agentLoop writes the conversation to
\* the host file (a failed write is only logged) and ends its iteration.
streamMessageReturn(msg) ==
    /\ message' = msg
    /\ conversation' = appendMessage(conversation, msg)
    /\ pc' = "agentLoop"
    /\ IF inLoop
       THEN /\ \E written \in WriteOutcomes(env) :
                 sink' = IF written THEN Written(conversation') ELSE sink
            /\ i' = i + 1
       ELSE /\ sink' = sink
            /\ i' = 0

\* ------------------------------------------------------- the LLM stream

\* handleStream is at its select, or at its receive from Result.
StreamLive == pc \in {"handleStream", "awaitResult"}

\* The bridge has the next text delta ready on Progress.
BridgeDelta ==
    /\ StreamLive
    /\ stream.progress = "open"
    /\ ~stream.result
    /\ ~stream.error
    /\ stream.sent < DeltasIn(env)
    /\ stream' = [stream EXCEPT !.progress = "offer", !.sent = @ + 1]
    /\ UNCHANGED <<pc, conversation, message, i, inLoop, hasStarted, k, tools,
                   inflight, dispatched, err, sink, consumer, events, streams, env,
                   sendRet,
                   toolsCache, registryVars, supervisorVars, auxVars>>

\* The bridge closes Progress: the sub-stream of deltas is over.
BridgeClose ==
    /\ StreamLive
    /\ stream.progress = "open"
    /\ ~stream.error
    /\ stream' = [stream EXCEPT !.progress = "closed"]
    /\ UNCHANGED <<pc, conversation, message, i, inLoop, hasStarted, k, tools,
                   inflight, dispatched, err, sink, consumer, events, streams, env,
                   sendRet,
                   toolsCache, registryVars, supervisorVars, auxVars>>

\* The bridge has the assembled assistant message ready on Result; which
\* message it is shows when handleStream receives it.
BridgeResult ==
    /\ StreamLive
    /\ stream.progress # "offer"
    /\ ~stream.result
    /\ ~stream.error
    /\ stream' = [stream EXCEPT !.result = TRUE]
    /\ UNCHANGED <<pc, conversation, message, i, inLoop, hasStarted, k, tools,
                   inflight, dispatched, err, sink, consumer, events, streams, env,
                   sendRet,
                   toolsCache, registryVars, supervisorVars, auxVars>>

\* The stream fails: the bridge completes the Error slot.
BridgeError ==
    /\ StreamLive
    /\ stream.progress # "closed"
    /\ ~stream.result
    /\ ~stream.error
    /\ stream' = [stream EXCEPT !.error = TRUE]
    /\ UNCHANGED <<pc, conversation, message, i, inLoop, hasStarted, k, tools,
                   inflight, dispatched, err, sink, consumer, events, streams, env,
                   sendRet,
                   toolsCache, registryVars, supervisorVars, auxVars>>

\* ------------------------------------------------------- handleStream

\* case err := <-stream.Error
handleStreamError ==
    /\ pc = "handleStream"
    /\ stream.error
    /\ Return("LLM stream error")
    /\ message' = None
    /\ conversation' = <<>>
    /\ UNCHANGED <<i, inLoop, hasStarted, stream, k, tools, inflight,
                   dispatched, sink, consumer, events, streams, env,
                   sendRet,
                   toolsCache, registryVars, supervisorVars, auxVars>>

\* case next, ok := <-stream.Progress with ok: the event to send is built.
handleStreamProgress ==
    /\ pc = "handleStream"
    /\ stream.progress = "offer"
    /\ stream' = [stream EXCEPT !.progress = "open"]
    /\ pc' = "sendProgress"
    /\ UNCHANGED <<conversation, message, i, inLoop, hasStarted, k, tools,
                   inflight, dispatched, err, sink, consumer, events, streams, env,
                   sendRet,
                   toolsCache, registryVars, supervisorVars, auxVars>>

\* handleStreamSendProgress, going back to the select without sending the
\* event.
handleStreamDropProgress ==
    /\ pc = "sendProgress"
    /\ pc' = "handleStream"
    /\ UNCHANGED <<conversation, message, i, inLoop, hasStarted, stream, k,
                   tools, inflight, dispatched, err, sink, consumer, events,
                   streams, env, sendRet,
                   toolsCache, registryVars, supervisorVars, auxVars>>

\* figaro.update <- Event{Type: evtType, Data: next}: the unbuffered channel
\* takes the event when the forum goroutine receives it.
handleStreamSendProgress ==
    /\ pc = "sendProgress"
    /\ consumer = "running"
    /\ LET evtType == IF ~hasStarted THEN "message_started" ELSE "message_part"
           event == Event(evtType, DeltaText(stream.sent))
       IN  /\ events' = Append(events, event)
           /\ \E renderOk \in RenderOutcomes(env) : consumer' = ForumReceive(event, renderOk)
    /\ pc' = "handleStream"
    /\ UNCHANGED <<conversation, message, i, inLoop, hasStarted, stream, k,
                   tools, inflight, dispatched, err, sink, streams, env,
                   sendRet,
                   toolsCache, registryVars, supervisorVars, auxVars>>

\* case next, ok := <-stream.Progress with !ok: handleStream goes to
\* return <-stream.Result.
handleStreamClosed ==
    /\ pc = "handleStream"
    /\ stream.progress = "closed"
    /\ pc' = "awaitResult"
    /\ UNCHANGED <<conversation, message, i, inLoop, hasStarted, stream, k,
                   tools, inflight, dispatched, err, sink, consumer, events,
                   streams, env,
                   sendRet,
                   toolsCache, registryVars, supervisorVars, auxVars>>

\* return <-stream.Result, nil
handleStreamAwaitResult ==
    /\ pc = "awaitResult"
    /\ stream.result
    /\ \E msg \in Messages(env, streams) : streamMessageReturn(msg)
    /\ UNCHANGED <<inLoop, hasStarted, stream, k, tools, inflight, dispatched,
                   err, consumer, events, streams, env,
                   sendRet,
                   toolsCache, registryVars, supervisorVars, auxVars>>

\* case message := <-stream.Result: the message_ended event is to be sent.
handleStreamResult ==
    /\ pc = "handleStream"
    /\ stream.result
    /\ pc' = "sendEnded"
    /\ UNCHANGED <<conversation, message, i, inLoop, hasStarted, stream, k,
                   tools, inflight, dispatched, err, sink, consumer, events,
                   streams, env,
                   sendRet,
                   toolsCache, registryVars, supervisorVars, auxVars>>

\* figaro.update <- Event{Type: MessageEnded, ...}; return message, nil
handleStreamSendEnded ==
    /\ pc = "sendEnded"
    /\ consumer = "running"
    /\ LET event == Event("message_ended", "")
       IN  /\ events' = Append(events, event)
           /\ \E renderOk \in RenderOutcomes(env) : consumer' = ForumReceive(event, renderOk)
    /\ \E msg \in Messages(env, streams) : streamMessageReturn(msg)
    /\ UNCHANGED <<inLoop, hasStarted, stream, k, tools, inflight, dispatched,
                   err, streams, env,
                   sendRet,
                   toolsCache, registryVars, supervisorVars, auxVars>>

\* ------------------------------------------------------- agentLoop

\* if err := shouldDisrupt(i); err != nil { return err }
agentLoopDisrupt ==
    /\ pc = "agentLoop"
    /\ shouldDisrupt(i) # "nil"
    /\ Return(shouldDisrupt(i))
    /\ events' = <<>>
    /\ UNCHANGED <<conversation, message, i, inLoop, hasStarted, stream, k,
                   tools, inflight, dispatched, sink, consumer, streams, env,
                   sendRet,
                   toolsCache, registryVars, supervisorVars, auxVars>>

\* message.StopReason == "tool_use": callTools starts on the first block.
agentLoopToolUse ==
    /\ pc = "agentLoop"
    /\ shouldDisrupt(i) = "nil"
    /\ message.stop = "tool_use"
    /\ pc' = "callTools"
    /\ k' = 1
    /\ tools' = <<>>
    /\ dispatched' = <<>>
    /\ events' = <<>>
    /\ UNCHANGED <<conversation, message, i, inLoop, hasStarted, stream,
                   inflight, err, sink, consumer, streams, env,
                   sendRet,
                   toolsCache, registryVars, supervisorVars, auxVars>>

\* else { return nil }
agentLoopReturn ==
    /\ pc = "agentLoop"
    /\ shouldDisrupt(i) = "nil"
    /\ message.stop # "tool_use"
    /\ Return("nil")
    /\ events' = <<>>
    /\ UNCHANGED <<conversation, message, i, inLoop, hasStarted, stream, k,
                   tools, inflight, dispatched, sink, consumer, streams, env,
                   sendRet,
                   toolsCache, registryVars, supervisorVars, auxVars>>

\* ------------------------------------------------------- callTools

AtBlock == pc = "callTools" /\ k <= Len(message.content)

\* A block that is no ToolUseBlock is passed over.
callToolsSkip ==
    /\ AtBlock
    /\ message.content[k].type # "tool_use"
    /\ k' = k + 1
    /\ UNCHANGED <<pc, conversation, message, i, inLoop, hasStarted, stream,
                   tools, inflight, dispatched, err, sink, consumer, events,
                   streams, env,
                   sendRet,
                   toolsCache, registryVars, supervisorVars, auxVars>>

\* callToolsNoClient, agentLoop appending the results callTools has so far
\* before it returns the error.
callToolsNoClientPartial ==
    /\ pc = "callTools" /\ k <= Len(message.content)
    /\ message.content[k].type = "tool_use"
    /\ GetClientForTool(message.content[k].name) = 0
    /\ Return("Could not find mcp client for " \o message.content[k].name)
    /\ conversation' =
          Append(conversation,
                 Turn("user",
                      [n \in 1..Len(dispatched) |->
                          createToolResultBlock(dispatched[n], tools[dispatched[n]])],
                      ""))
    /\ UNCHANGED <<message, i, inLoop, hasStarted, stream, k,
                   tools, inflight, dispatched, sink, consumer, events, streams, env,
                   sendRet,
                   toolsCache, registryVars, supervisorVars, auxVars>>

\* client == nil
callToolsNoClient ==
    /\ AtBlock
    /\ message.content[k].type = "tool_use"
    /\ GetClientForTool(message.content[k].name) = 0
    /\ Return("Could not find mcp client for " \o message.content[k].name)
    /\ UNCHANGED <<conversation, message, i, inLoop, hasStarted, stream, k,
                   tools, inflight, dispatched, sink, consumer, events, streams, env,
                   sendRet,
                   toolsCache, registryVars, supervisorVars, auxVars>>

\* json.Unmarshal(variant.Input, &args) fails
callToolsBadInput ==
    /\ AtBlock
    /\ message.content[k].type = "tool_use"
    /\ GetClientForTool(message.content[k].name) # 0
    /\ ~UnmarshalOk(message.content[k].input)
    /\ Return("json: cannot unmarshal into Go value of type map[string]interface {}")
    /\ UNCHANGED <<conversation, message, i, inLoop, hasStarted, stream, k,
                   tools, inflight, dispatched, sink, consumer, events, streams, env,
                   sendRet,
                   toolsCache, registryVars, supervisorVars, auxVars>>

\* callToolsSend, going on to the next block without waiting for the call.
callToolsSendNoWait ==
    /\ AtBlock
    /\ message.content[k].type = "tool_use"
    /\ GetClientForTool(message.content[k].name) # 0
    /\ UnmarshalOk(message.content[k].input)
    /\ inflight' = inflight \cup {message.content[k].id}
    /\ dispatched' = Append(dispatched, message.content[k].id)
    /\ k' = k + 1
    /\ UNCHANGED <<pc, conversation, message, i, inLoop, hasStarted, stream,
                   tools, err, sink, consumer, events, streams, env, sendRet,
                   toolsCache, registryVars, supervisorVars, auxVars>>

\* client.SendMessage(ctx, "tools/call", ...) is called: callTools waits for it.
callToolsSend ==
    /\ AtBlock
    /\ message.content[k].type = "tool_use"
    /\ GetClientForTool(message.content[k].name) # 0
    /\ UnmarshalOk(message.content[k].input)
    /\ inflight' = inflight \cup {message.content[k].id}
    /\ dispatched' = Append(dispatched, message.content[k].id)
    /\ pc' = "SendMessage"
    /\ UNCHANGED <<conversation, message, i, inLoop, hasStarted, stream, k,
                   tools, err, sink, consumer, events, streams, env,
                   sendRet,
                   toolsCache, registryVars, supervisorVars, auxVars>>

\* callToolsReceive, storing the response under the tool's name, not the
\* block's id.
callToolsReceiveByName(out) ==
    /\ inflight' = inflight \ {message.content[k].id}
    /\ sendRet' = out
    /\ IF out.ok
       THEN /\ tools' = (message.content[k].name :> out.response) @@ tools
            /\ k' = k + 1
            /\ pc' = "callTools"
            /\ err' = err
       ELSE /\ Return(out.error)
            /\ UNCHANGED <<tools, k>>

\* callToolsReceive, taking a result flagged isError for a failed call.
callToolsReceiveFatal(out) ==
    /\ inflight' = inflight \ {message.content[k].id}
    /\ sendRet' = out
    /\ IF out.ok /\ ~out.response.result.isError
       THEN /\ tools' = (message.content[k].id :> out.response) @@ tools
            /\ k' = k + 1
            /\ pc' = "callTools"
            /\ err' = err
       ELSE /\ Return(IF out.ok THEN "tool error" ELSE out.error)
            /\ UNCHANGED <<tools, k>>

\* callToolsReceive, going on to the next block after an error of SendMessage.
callToolsReceiveIgnoreErr(out) ==
    /\ inflight' = inflight \ {message.content[k].id}
    /\ sendRet' = out
    /\ tools' = IF out.ok
                THEN (message.content[k].id :> out.response) @@ tools
                ELSE tools
    /\ k' = k + 1
    /\ pc' = "callTools"
    /\ err' = err

\* SendMessage has returned out: an error ends the request, a response is
\* stored under the block's id and the next block is looked at.
callToolsReceive(out) ==
    /\ inflight' = inflight \ {message.content[k].id}
    /\ sendRet' = out
    /\ IF out.ok
       THEN /\ tools' = (message.content[k].id :> out.response) @@ tools
            /\ k' = k + 1
            /\ pc' = "callTools"
            /\ err' = err
       ELSE /\ Return(out.error)
            /\ UNCHANGED <<tools, k>>

SendMessageReturns ==
    /\ pc = "SendMessage"
    /\ \E out \in SendMessageOutcomes(env) : callToolsReceive(out)
    /\ UNCHANGED <<conversation, message, i, inLoop, hasStarted, stream,
                   dispatched, sink, consumer, events, streams, env,
                   toolsCache, registryVars, supervisorVars, auxVars>>

\* The user turn agentLoop builds from callTools' map, visited in order o.
ToolResultTurn(responses, o) ==
    Turn("user",
         [n \in 1..Len(o) |-> createToolResultBlock(o[n], responses[o[n]])],
         "")

\* callTools returns its map: agentLoop appends the tool_result turn and
\* calls streamMessage.
agentLoopToolResults ==
    /\ pc = "callTools"
    /\ k > Len(message.content)
    /\ \E o \in Orders(DOMAIN tools) :
          conversation' = Append(conversation, ToolResultTurn(tools, o))
    /\ inLoop' = TRUE
    /\ pc' = "streamMessage"
    /\ UNCHANGED <<message, i, hasStarted, stream, k, tools, inflight,
                   dispatched, err, sink, consumer, events, streams, env,
                   sendRet,
                   toolsCache, registryVars, supervisorVars, auxVars>>

\* ------------------------------------------------------- specification

AgentStep ==
    \/ Request
    \/ streamMessage
    \/ handleStreamError
    \/ handleStreamProgress
    \/ handleStreamSendProgress
    \/ handleStreamClosed
    \/ handleStreamAwaitResult
    \/ handleStreamResult
    \/ handleStreamSendEnded
    \/ agentLoopDisrupt
    \/ agentLoopToolUse
    \/ agentLoopReturn
    \/ callToolsSkip
    \/ callToolsNoClient
    \/ callToolsBadInput
    \/ callToolsSend
    \/ agentLoopToolResults

BridgeStep ==
    \/ BridgeDelta
    \/ BridgeClose
    \/ BridgeResult
    \/ BridgeError

\* ------------------------------------------------------- tool registry calls

\* A call of GetAllTools.
CallGetAllTools ==
    /\ got' = GetAllTools
    /\ toolsCache' = IF GetAllTools.ok THEN [tools |-> GetAllTools.tools]
                     ELSE toolsCache
    /\ UNCHANGED <<clients, lookups, agentVars, supervisorVars, auxVars>>

\* A call of GetClientForTool.
CallGetClientForTool ==
    /\ Len(lookups) < MaxLookups
    /\ \E toolName \in LookupNames :
          lookups' = Append(lookups, [toolName |-> toolName,
                                      client |-> GetClientForTool(toolName)])
    /\ UNCHANGED <<clients, toolsCache, got, agentVars, supervisorVars, auxVars>>

Next ==
    \/ AgentStep
    \/ BridgeStep
    \/ SendMessageReturns

Spec == Init /\ [][Next]_vars

\* The tool registry by itself: any registry within the bounds, and the calls
\* of its two operations in any order.
\* No Request has been made.
AgentIdle ==
    /\ pc = "idle"
    /\ conversation = <<>>
    /\ message = None
    /\ i = 0
    /\ inLoop = FALSE
    /\ hasStarted = FALSE
    /\ stream = None
    /\ k = 0
    /\ tools = <<>>
    /\ inflight = {}
    /\ dispatched = <<>>
    /\ sendRet = None
    /\ err = None
    /\ sink = None
    /\ consumer = "running"
    /\ events = <<>>
    /\ streams = 0
    /\ env = "plain"

RegistryInit ==
    /\ clients \in Registries(MaxClients)
    /\ toolsCache = None
    /\ got = None
    /\ lookups = <<>>
    /\ AgentIdle
    /\ SupervisorIdle
    /\ AuxIdle

RegistryNext ==
    \/ CallGetAllTools
    \/ CallGetClientForTool

RegistrySpec == RegistryInit /\ [][RegistryNext]_vars

\* ------------------------------------------------------- SummonFigaro

\* The names of the server definitions.
ServerNames == {"fs", "git"}

\* The server registries of at most n definitions.
RECURSIVE ServerRegistries(_)
ServerRegistries(n) ==
    IF n = 0 THEN {<<>>}
    ELSE ServerRegistries(n - 1) \cup
         {Append(r, d) : r \in {q \in ServerRegistries(n - 1) : Len(q) = n - 1},
                         d \in ServerNames}

\* What dockerbridge.Setup, jsonrpc.NewStdioClient and mcp.Initialize return
\* as err, and what a transport's completion signal fires with.
SetupOutcomes == {"nil", "image pull failed"}
NewStdioClientOutcomes == {"nil", "stdio client failed"}
InitializeOutcomes == {"nil", "initialize failed"}
DoneOutcomes == {"nil", "exit status 1"}

\* The zero value of mcpClientWrapper, and the wrapper of the client
\* initialized for a server definition.
ZeroClient == [server |-> ""]
ClientOf(server) == [server |-> server]

\* StoreClient, writing the first element whatever the index.
StoreClientFirst(slice, index, client) == [slice EXCEPT ![1] = client]

\* mcpClients[index] = client
StoreClient(slice, index, client) == [slice EXCEPT ![index] = client]

\* cancel, the last cause replacing the one kept.
cancelOverwrite(cause) ==
    IF cause = "nil" THEN "context canceled" ELSE cause

\* The cause of the context after cancel(cause): the first cause is kept, and
\* a nil cause stands for context.Canceled.
cancel(cause) ==
    IF rootCause # NotCancelled THEN rootCause
    ELSE IF cause = "nil" THEN "context canceled"
    ELSE cause

\* The calls of a failure path of SummonFigaro, in the order it makes them.
Call(name, arg) == [call |-> name, arg |-> arg]

\* SummonFigaro up to its range over the servers.
SummonFigaro ==
    /\ mainPc = "SummonFigaro"
    /\ LET n == Len(servers.DockerServers)
       IN  /\ mcpClients' = [s \in 1..n |-> ZeroClient]
           /\ connCtx' = [s \in 1..n |-> "none"]
           /\ rpcCtx' = [s \in 1..n |-> "none"]
           /\ connDone' = [s \in 1..n |-> "unset"]
           /\ mainPc' = IF n = 0 THEN "summonReturn" ELSE "Setup"
    /\ srv' = 1
    /\ rootCause' = NotCancelled
    /\ UNCHANGED <<servers, unwind, summoned, deferred, panicking, update,
                   requestRet,
                   agentVars, toolsCache, registryVars, auxVars>>

\* connCtx is made, its watcher started, and dockerbridge.Setup called.
summonSetup ==
    /\ mainPc = "Setup"
    /\ connCtx' = [connCtx EXCEPT ![srv] = "live"]
    /\ \E e \in SetupOutcomes :
        IF e = "nil"
        THEN /\ connDone' = [connDone EXCEPT ![srv] = "pending"]
             /\ mainPc' = "NewStdioClient"
             /\ unwind' = unwind
        ELSE /\ unwind' = <<Call("cancel", e), Call("cancelConn", ""),
                            Call("return", e)>>
             /\ mainPc' = "unwind"
             /\ connDone' = connDone
    /\ UNCHANGED <<servers, srv, rpcCtx, rootCause, mcpClients, summoned,
                   deferred, panicking, update, requestRet,
                   agentVars, toolsCache, registryVars, auxVars>>

\* rpcCtx is made, its watcher started, and jsonrpc.NewStdioClient called.
summonNewStdioClient ==
    /\ mainPc = "NewStdioClient"
    /\ rpcCtx' = [rpcCtx EXCEPT ![srv] = "live"]
    /\ \E e \in NewStdioClientOutcomes :
        IF e = "nil"
        THEN /\ mainPc' = "Initialize"
             /\ unwind' = unwind
        ELSE /\ unwind' = <<Call("cancelConn", ""), Call("cancelRpc", ""),
                            Call("cancel", e), Call("return", e)>>
             /\ mainPc' = "unwind"
    /\ UNCHANGED <<servers, srv, connCtx, connDone, rootCause, mcpClients,
                   summoned, deferred, panicking, update, requestRet,
                   agentVars, toolsCache, registryVars, auxVars>>

\* mcp.Initialize is called and the wrapper stored; the range goes on.
summonInitialize ==
    /\ mainPc = "Initialize"
    /\ \E e \in InitializeOutcomes :
        IF e = "nil"
        THEN /\ mcpClients' = StoreClient(mcpClients, srv,
                                          ClientOf(servers.DockerServers[srv]))
             /\ IF srv = Len(servers.DockerServers)
                THEN mainPc' = "summonReturn" /\ srv' = srv
                ELSE mainPc' = "Setup" /\ srv' = srv + 1
             /\ unwind' = unwind
        ELSE /\ unwind' = <<Call("cancelConn", ""), Call("cancelRpc", ""),
                            Call("cancel", e), Call("return", e)>>
             /\ mainPc' = "unwind"
             /\ UNCHANGED <<mcpClients, srv>>
    /\ UNCHANGED <<servers, connCtx, rpcCtx, connDone, rootCause, summoned,
                   deferred, panicking, update, requestRet,
                   agentVars, toolsCache, registryVars, auxVars>>

\* The next call of a failure path: cancelConn(), cancelRpc(), cancel(err),
\* or return nil, nil, err.
summonUnwind ==
    /\ mainPc = "unwind"
    /\ LET c == Head(unwind)
       IN  /\ connCtx' = IF c.call = "cancelConn"
                         THEN [connCtx EXCEPT ![srv] = "cancelled"] ELSE connCtx
           /\ rpcCtx' = IF c.call = "cancelRpc"
                        THEN [rpcCtx EXCEPT ![srv] = "cancelled"] ELSE rpcCtx
           /\ rootCause' = IF c.call = "cancel" THEN cancel(c.arg) ELSE rootCause
           /\ IF c.call = "return"
              THEN /\ summoned' = [figaro |-> None, cancel |-> FALSE, err |-> c.arg]
                   /\ mainPc' = "summoned"
              ELSE UNCHANGED <<summoned, mainPc>>
    /\ unwind' = Tail(unwind)
    /\ UNCHANGED <<servers, srv, connDone, mcpClients, deferred, panicking,
                   update, requestRet,
                   agentVars, toolsCache, registryVars, auxVars>>

\* return &Figaro{clients: mcpClients, ...}, cancel, nil
summonReturn ==
    /\ mainPc = "summonReturn"
    /\ summoned' = [figaro |-> [clients |-> mcpClients], cancel |-> TRUE,
                    err |-> "nil"]
    /\ mainPc' = "summoned"
    /\ UNCHANGED <<servers, srv, connCtx, rpcCtx, connDone, rootCause,
                   mcpClients, unwind, deferred, panicking, update, requestRet,
                   agentVars, toolsCache, registryVars, auxVars>>

SummonStep ==
    \/ SummonFigaro
    \/ summonSetup
    \/ summonNewStdioClient
    \/ summonInitialize
    \/ summonUnwind
    \/ summonReturn

\* ------------------------------------------------------- lifecycle watchers

\* The process runs: its goroutines can take steps.
Alive == mainPc # "exited"

\* The servers whose contexts SummonFigaro has made or will make.
Servers == DOMAIN connCtx

\* First watcher of a server, case <-ctx.Done(): cancelConn()
WatchConnRoot ==
    /\ Alive
    /\ rootCause # NotCancelled
    /\ \E s \in Servers :
          /\ connCtx[s] = "live"
          /\ connCtx' = [connCtx EXCEPT ![s] = "cancelled"]
    /\ UNCHANGED <<mainPc, servers, srv, rpcCtx, connDone, rootCause,
                   mcpClients, unwind, summoned, deferred, panicking, update,
                   requestRet,
                   agentVars, toolsCache, registryVars, auxVars>>

\* First watcher of a server, case <-connCtx.Done(): cancel(connCtx.Err())
WatchConnDone ==
    /\ Alive
    /\ rootCause = NotCancelled
    /\ \E s \in Servers : connCtx[s] = "cancelled"
    /\ rootCause' = cancel("context canceled")
    /\ UNCHANGED <<mainPc, servers, srv, connCtx, rpcCtx, connDone, mcpClients,
                   unwind, summoned, deferred, panicking, update, requestRet,
                   agentVars, toolsCache, registryVars, auxVars>>

\* Second watcher of a server, case <-ctx.Done(): cancelConn()
WatchRpcRoot ==
    /\ Alive
    /\ rootCause # NotCancelled
    /\ \E s \in Servers :
          /\ rpcCtx[s] # "none"
          /\ connCtx[s] = "live"
          /\ connCtx' = [connCtx EXCEPT ![s] = "cancelled"]
    /\ UNCHANGED <<mainPc, servers, srv, rpcCtx, connDone, rootCause,
                   mcpClients, unwind, summoned, deferred, panicking, update,
                   requestRet,
                   agentVars, toolsCache, registryVars, auxVars>>

\* Second watcher of a server, case <-rpcCtx.Done(): cancel(rpcCtx.Err())
WatchRpcDone ==
    /\ Alive
    /\ rootCause = NotCancelled
    /\ \E s \in Servers : rpcCtx[s] = "cancelled"
    /\ rootCause' = cancel("context canceled")
    /\ UNCHANGED <<mainPc, servers, srv, connCtx, rpcCtx, connDone, mcpClients,
                   unwind, summoned, deferred, panicking, update, requestRet,
                   agentVars, toolsCache, registryVars, auxVars>>

WatcherStep ==
    \/ WatchConnRoot
    \/ WatchConnDone
    \/ WatchRpcRoot
    \/ WatchRpcDone

\* The completion signal of a server's transport fires.
TransportCompletes ==
    /\ Alive
    /\ \E s \in Servers :
          /\ connDone[s] = "pending"
          /\ \E e \in DoneOutcomes : connDone' = [connDone EXCEPT ![s] = e]
    /\ UNCHANGED <<mainPc, servers, srv, connCtx, rpcCtx, rootCause, mcpClients,
                   unwind, summoned, deferred, panicking, update, requestRet,
                   agentVars, toolsCache, registryVars, auxVars>>

\* The caller of SummonFigaro calls the cancel function it got.
CallerCancel ==
    /\ mainPc = "summoned"
    /\ summoned.cancel
    /\ rootCause = NotCancelled
    /\ \E cause \in {"nil", "operator interrupt"} : rootCause' = cancel(cause)
    /\ UNCHANGED <<mainPc, servers, srv, connCtx, rpcCtx, connDone, mcpClients,
                   unwind, summoned, deferred, panicking, update, requestRet,
                   agentVars, toolsCache, registryVars, auxVars>>

\* SummonFigaro called with any server registry within the bounds, its
\* watchers, the transports, and a caller that may cancel.
SummonInit ==
    /\ mainPc = "SummonFigaro"
    /\ servers \in {[DockerServers |-> r] : r \in ServerRegistries(MaxServers)}
    /\ srv = 0
    /\ connCtx = <<>>
    /\ rpcCtx = <<>>
    /\ connDone = <<>>
    /\ rootCause = NotCancelled
    /\ mcpClients = <<>>
    /\ unwind = <<>>
    /\ summoned = None
    /\ deferred = <<>>
    /\ panicking = FALSE
    /\ update = [closes |-> 0, sent |-> 0, sentClosed |-> FALSE]
    /\ requestRet = "none"
    /\ AgentIdle
    /\ clients = <<>>
    /\ toolsCache = None
    /\ got = None
    /\ lookups = <<>>
    /\ AuxIdle

SummonNext ==
    \/ SummonStep
    \/ WatcherStep
    \/ TransportCompletes
    \/ CallerCancel

SummonSpec == SummonInit /\ [][SummonNext]_vars

\* ------------------------------------------------------- main

\* What main sees of figaro.Request: the error it returns ("nil" for none),
\* or its panic.
RequestOutcomes == {"nil", "Maximum iteration count was exhausted.", "panic"}

\* main up to getServers: the root context and the tracer, both with their
\* deferred calls, and the server registry (nil when getServers fails).
mainStart ==
    /\ mainPc = "main"
    /\ deferred' = <<"tp.Shutdown", "cancelRoot">>
    /\ servers' \in {None} \cup
          {[DockerServers |-> r] : r \in ServerRegistries(MaxServers)}
    /\ mainPc' = "OpenForum"
    /\ UNCHANGED <<srv, connCtx, rpcCtx, connDone, rootCause, mcpClients,
                   unwind, summoned, panicking, update, requestRet,
                   agentVars, toolsCache, registryVars, auxVars>>

\* mainOpenForum, closing the channel at once as well as on return.
mainOpenForumCloseNow ==
    /\ mainPc = "OpenForum"
    /\ deferred' = <<"close(update)">> \o deferred
    /\ update' = [update EXCEPT !.closes = @ + 1]
    /\ mainPc' = "callSummon"
    /\ UNCHANGED <<servers, srv, connCtx, rpcCtx, connDone, rootCause,
                   mcpClients, unwind, summoned, panicking, requestRet,
                   agentVars, toolsCache, registryVars, auxVars>>

\* update := make(chan figaro.Event); defer close(update); forum.OpenForum
mainOpenForum ==
    /\ mainPc = "OpenForum"
    /\ deferred' = <<"close(update)">> \o deferred
    /\ mainPc' = "callSummon"
    /\ UNCHANGED <<servers, srv, connCtx, rpcCtx, connDone, rootCause,
                   mcpClients, unwind, summoned, panicking, update, requestRet,
                   agentVars, toolsCache, registryVars, auxVars>>

\* figaro.SummonFigaro(ctx, tp, *servers, update): a nil servers panics.
mainCallSummon ==
    /\ mainPc = "callSummon"
    /\ IF servers = None
       THEN panicking' = TRUE /\ mainPc' = "deferred"
       ELSE panicking' = panicking /\ mainPc' = "SummonFigaro"
    /\ UNCHANGED <<servers, srv, connCtx, rpcCtx, connDone, rootCause,
                   mcpClients, unwind, summoned, deferred, update, requestRet,
                   agentVars, toolsCache, registryVars, auxVars>>

\* SummonFigaro has returned: defer cancel(ctx.Err()); on an error, return.
mainAfterSummon ==
    /\ mainPc = "summoned"
    /\ deferred' = <<"cancel">> \o deferred
    /\ mainPc' = IF summoned.err # "nil" THEN "deferred" ELSE "args"
    /\ UNCHANGED <<servers, srv, connCtx, rpcCtx, connDone, rootCause,
                   mcpClients, unwind, summoned, panicking, update, requestRet,
                   agentVars, toolsCache, registryVars, auxVars>>

\* args := flag.Args(): with arguments Request is called, without them
\* cancel(nil) and main ends.
mainArgs ==
    /\ mainPc = "args"
    /\ \E hasArgs \in BOOLEAN :
        IF hasArgs
        THEN mainPc' = "Request" /\ rootCause' = rootCause
        ELSE mainPc' = "deferred" /\ rootCause' = cancel("nil")
    /\ UNCHANGED <<servers, srv, connCtx, rpcCtx, connDone, mcpClients, unwind,
                   summoned, deferred, panicking, update, requestRet,
                   agentVars, toolsCache, registryVars, auxVars>>

\* Request, running in main's goroutine, sends an event on update.
mainRequestSend ==
    /\ mainPc = "Request"
    /\ update.sent < MaxEvents
    /\ update' = [update EXCEPT !.sent = @ + 1,
                                !.sentClosed = @ \/ update.closes > 0]
    /\ UNCHANGED <<mainPc, servers, srv, connCtx, rpcCtx, connDone, rootCause,
                   mcpClients, unwind, summoned, deferred, panicking,
                   requestRet,
                   agentVars, toolsCache, registryVars, auxVars>>

\* Request returns, or panics.
mainRequestReturns ==
    /\ mainPc = "Request"
    /\ \E out \in RequestOutcomes :
        IF out = "panic"
        THEN /\ panicking' = TRUE
             /\ mainPc' = "deferred"
             /\ requestRet' = requestRet
        ELSE /\ requestRet' = out
             /\ mainPc' = "cancel"
             /\ panicking' = panicking
    /\ UNCHANGED <<servers, srv, connCtx, rpcCtx, connDone, rootCause,
                   mcpClients, unwind, summoned, deferred, update,
                   agentVars, toolsCache, registryVars, auxVars>>

\* cancel(nil), and main returns.
mainCancel ==
    /\ mainPc = "cancel"
    /\ rootCause' = cancel("nil")
    /\ mainPc' = "deferred"
    /\ UNCHANGED <<servers, srv, connCtx, rpcCtx, connDone, mcpClients, unwind,
                   summoned, deferred, panicking, update, requestRet,
                   agentVars, toolsCache, registryVars, auxVars>>

\* The deferred call deferred last runs: the cancel SummonFigaro returned (a
\* nil one panics), close(update), the tracer's shutdown, the root cancel
\* (which cancels SummonFigaro's context, its child).
mainDeferred ==
    /\ mainPc = "deferred"
    /\ deferred # <<>>
    /\ LET d == Head(deferred)
       IN  /\ panicking' = (panicking \/ (d = "cancel" /\ ~summoned.cancel))
           /\ rootCause' =
                IF d = "cancel" /\ summoned.cancel THEN cancel("nil")
                ELSE IF d = "cancelRoot" /\ summoned # None THEN cancel("nil")
                ELSE rootCause
           /\ update' = IF d = "close(update)"
                        THEN [update EXCEPT !.closes = @ + 1] ELSE update
    /\ deferred' = Tail(deferred)
    /\ UNCHANGED <<mainPc, servers, srv, connCtx, rpcCtx, connDone, mcpClients,
                   unwind, summoned, requestRet,
                   agentVars, toolsCache, registryVars, auxVars>>

\* No deferred call is left: the process ends.
mainExit ==
    /\ mainPc = "deferred"
    /\ deferred = <<>>
    /\ mainPc' = "exited"
    /\ UNCHANGED <<servers, srv, connCtx, rpcCtx, connDone, rootCause,
                   mcpClients, unwind, summoned, deferred, panicking, update,
                   requestRet,
                   agentVars, toolsCache, registryVars, auxVars>>

MainStep ==
    \/ mainStart
    \/ mainOpenForum
    \/ mainCallSummon
    \/ mainAfterSummon
    \/ mainArgs
    \/ mainRequestSend
    \/ mainRequestReturns
    \/ mainCancel
    \/ mainDeferred
    \/ mainExit

MainInit ==
    /\ mainPc = "main"
    /\ servers = [DockerServers |-> <<>>]
    /\ srv = 0
    /\ connCtx = <<>>
    /\ rpcCtx = <<>>
    /\ connDone = <<>>
    /\ rootCause = NotCancelled
    /\ mcpClients = <<>>
    /\ unwind = <<>>
    /\ summoned = None
    /\ deferred = <<>>
    /\ panicking = FALSE
    /\ update = [closes |-> 0, sent |-> 0, sentClosed |-> FALSE]
    /\ requestRet = "none"
    /\ AgentIdle
    /\ clients = <<>>
    /\ toolsCache = None
    /\ got = None
    /\ lookups = <<>>
    /\ AuxIdle

MainNext ==
    \/ MainStep
    \/ SummonStep
    \/ WatcherStep
    \/ TransportCompletes

MainSpec == MainInit /\ [][MainNext]_vars

\* A Request made on the Figaro of the two servers SummonFigaro has returned,
\* by a caller that may call the cancel function it got while the Request
\* runs.
SummonedServers == <<"fs", "git">>

CancelInit ==
    /\ pc = "Request"
    /\ conversation = <<>>
    /\ message = None
    /\ i = 0
    /\ inLoop = FALSE
    /\ hasStarted = FALSE
    /\ stream = None
    /\ k = 0
    /\ tools = <<>>
    /\ inflight = {}
    /\ dispatched = <<>>
    /\ sendRet = None
    /\ err = None
    /\ sink = None
    /\ consumer = "running"
    /\ events = <<>>
    /\ streams = 0
    /\ env \in Envs
    /\ clients = ClientTools
    /\ toolsCache = None
    /\ got = None
    /\ lookups = <<>>
    /\ mainPc = "summoned"
    /\ servers = [DockerServers |-> SummonedServers]
    /\ srv = Len(SummonedServers)
    /\ connCtx = [s \in 1..Len(SummonedServers) |-> "live"]
    /\ rpcCtx = [s \in 1..Len(SummonedServers) |-> "live"]
    /\ connDone = [s \in 1..Len(SummonedServers) |-> "pending"]
    /\ rootCause = NotCancelled
    /\ mcpClients = [s \in 1..Len(SummonedServers) |-> ClientOf(SummonedServers[s])]
    /\ unwind = <<>>
    /\ summoned = [figaro |-> [clients |-> mcpClients], cancel |-> TRUE,
                   err |-> "nil"]
    /\ deferred = <<>>
    /\ panicking = FALSE
    /\ update = [closes |-> 0, sent |-> 0, sentClosed |-> FALSE]
    /\ requestRet = "none"
    /\ AuxIdle

\* The caller cancels while handleStream runs an LLM stream of the Request.
CancelDuringStream ==
    /\ pc \in {"handleStream", "sendProgress", "awaitResult", "sendEnded"}
    /\ CallerCancel

CancelNext ==
    \/ AgentStep
    \/ BridgeStep
    \/ SendMessageReturns
    \/ CancelDuringStream

CancelSpec == CancelInit /\ [][CancelNext]_vars

\* The Go scheduler runs every goroutine that can take a step; every LLM
\* stream delivers its result or an error; every tools/call returns.
FairSpec ==
    /\ Spec
    /\ WF_vars(AgentStep)
    /\ WF_vars(BridgeStep)
    /\ WF_vars(SendMessageReturns)

\* ------------------------------------------------------- properties

\* The positions of the tool_use blocks of a content, and their ids.
ToolUsePositions(content) ==
    {p \in 1..Len(content) : content[p].type = "tool_use"}

ToolUseIds(content) == {content[p].id : p \in ToolUsePositions(content)}

\* The ids of the tool_use blocks among the first n blocks, in block order.
RECURSIVE ToolUseIdsUpTo(_, _)
ToolUseIdsUpTo(content, n) ==
    IF n = 0 THEN <<>>
    ELSE IF content[n].type = "tool_use"
         THEN Append(ToolUseIdsUpTo(content, n - 1), content[n].id)
         ELSE ToolUseIdsUpTo(content, n - 1)

\* The user turn u answers the tool_use blocks of the assistant turn a: all
\* its blocks are tool_result blocks, one for each tool_use id of a.
Answers(u, a) ==
    /\ u.role = "user"
    /\ \A p \in 1..Len(u.content) :
          /\ u.content[p].type = "tool_result"
          /\ u.content[p].tool_use_id \in ToolUseIds(a.content)
    /\ \A id \in ToolUseIds(a.content) :
          Cardinality({p \in 1..Len(u.content) :
                          u.content[p].tool_use_id = id}) = 1
    /\ Len(u.content) = Cardinality(ToolUsePositions(a.content))

\* C1: in the conversation, every assistant turn that stopped for tool use
\* and is not the last turn is followed at once by a user turn holding
\* exactly one tool_result block for each of its tool_use blocks, matched by
\* id; so no assistant turn follows it before its results do.
C1_ToolUseAnswered ==
    \A n \in 1..(Len(conversation) - 1) :
        (conversation[n].role = "assistant" /\ conversation[n].stop = "tool_use")
            => Answers(conversation[n + 1], conversation[n])

\* C1 witness: a turn with two tool_use blocks has been answered.
C1_Witness ==
    \E n \in 1..(Len(conversation) - 1) :
        /\ conversation[n].stop = "tool_use"
        /\ Cardinality(ToolUseIds(conversation[n].content)) = 2
        /\ Len(conversation[n + 1].content) = 2

\* C2: a Request starts at most 10 LLM streams.
C2_AtMostTenStreams == streams <= 10

\* C3: a Request whose last streamed assistant turn did not stop for tool
\* use returns without error.
C3_NormalCompletion ==
    (pc = "done" /\ message # None /\ message.stop # "tool_use") => err = "nil"

\* The last turn of a conversation.
LastTurn(conv) == conv[Len(conv)]

\* The text the MCP result of a tools/call carries.
ResultText(response) == response.result.content[1].text

\* The JSON text of an MCP result flagged isError that carries text.
ErrorResultJson(text) ==
    "{\"content\":[{\"text\":\"" \o text \o "\",\"type\":\"text\"}],\"isError\":true}"

\* SendMessage has returned a result flagged isError.
IsErrorResult(ret) == ret # None /\ ret.ok /\ ret.response.result.isError

\* SendMessage has returned an error.
TransportFailed(ret) == ret # None /\ ~ret.ok

\* A step in which SendMessage returns a result flagged isError.
IsErrorReturned == pc = "SendMessage" /\ pc' # pc /\ IsErrorResult(sendRet')

\* A step in which agentLoop appends the tool_result turn.
ToolResultsAppended == pc = "callTools" /\ pc' = "streamMessage"

C5_TransportErrorFatal ==
    /\ TransportFailed(sendRet) => (pc = "done" /\ err = sendRet.error)
    /\ pc = "done" => ~ENABLED streamMessage

\* C5 witness: the second tools/call of a turn failed in the transport.
C5_Witness == TransportFailed(sendRet) /\ Len(dispatched) = 2 /\ pc = "done"

\* The first tool_use block of the message names a tool no client contains.
FirstToolUnknown(msg) ==
    /\ ToolUsePositions(msg.content) # {}
    /\ LET first == CHOOSE p \in ToolUsePositions(msg.content) :
                        \A q \in ToolUsePositions(msg.content) : p <= q
       IN  GetClientForTool(msg.content[first].name) = 0

\* C6: a Request whose last streamed assistant turn stopped for tool use and
\* asks first for a tool no client contains returns the error that names
\* that tool, not the iteration-bound error.
C6_UnknownToolError ==
    (pc = "done" /\ message # None /\ message.stop = "tool_use"
        /\ FirstToolUnknown(message))
    => err = "Could not find mcp client for nope"

\* C7: at most one tools/call of the agent loop is in flight, it is the call
\* for the block callTools stands at, and the calls of a turn have been
\* issued for its tool_use blocks in block order, none skipped.
C7_SequentialDispatch ==
    /\ Cardinality(inflight) <= 1
    /\ pc = "SendMessage" =>
          /\ inflight = {message.content[k].id}
          /\ dispatched = ToolUseIdsUpTo(message.content, k)
    /\ pc = "callTools" =>
          /\ inflight = {}
          /\ dispatched = ToolUseIdsUpTo(message.content, k - 1)

\* C7 witness: the second call of a turn is in flight, the first returned.
C7_Witness ==
    /\ pc = "SendMessage"
    /\ Len(dispatched) = 2
    /\ dispatched[1] \in DOMAIN tools
    /\ inflight = {dispatched[2]}

\* C8: a Request that has not returned can take a step, or one of the
\* streams and calls it waits for can: it never waits forever.
C8_RequestNeverStuck == pc = "done" \/ ENABLED Next

\* C8 under FairSpec: every Request returns.
RequestReturns == <>(pc = "done")

\* C9: of the events of one stream that carry a delta, the first is typed
\* message_started and every later one message_part.
C9_EventTyping ==
    \A n \in 1..Len(events) :
        events[n].type # "message_ended" =>
            events[n].type = (IF n = 1 THEN "message_started" ELSE "message_part")

\* C10: when handleStream has returned the message of a stream, exactly one
\* message_ended event has been sent for the stream, after its delta events.
C10_MessageEnded ==
    pc = "agentLoop" =>
        /\ Len(events) >= 1
        /\ events[Len(events)].type = "message_ended"
        /\ \A n \in 1..(Len(events) - 1) : events[n].type # "message_ended"

\* The Data payloads of the events of the stream that carry a delta, in the
\* order the events were pushed.
RECURSIVE DeltaPayloads(_)
DeltaPayloads(evts) ==
    IF evts = <<>> THEN <<>>
    ELSE IF Head(evts).type = "message_ended" THEN DeltaPayloads(Tail(evts))
    ELSE <<Head(evts).data>> \o DeltaPayloads(Tail(evts))

\* The text deltas handleStream has received from Progress and has sent on.
DeltasTaken ==
    stream.sent - (IF stream.progress = "offer" THEN 1 ELSE 0)
                - (IF pc = "sendProgress" THEN 1 ELSE 0)

C12_SendNeverBlocks ==
    /\ pc = "sendProgress" => ENABLED handleStreamSendProgress
    /\ pc = "sendEnded" => ENABLED handleStreamSendEnded

\* The concatenation of the catalogues of the clients from client c on.
RECURSIVE Concatenation(_)
Concatenation(c) ==
    IF c > Len(clients) THEN <<>> ELSE clients[c] \o Concatenation(c + 1)

\* C14: GetAllTools returns the concatenation of the catalogues of the
\* clients, in registration order.
C14_AllToolsConcatenated ==
    got # None => got = [ok |-> TRUE, tools |-> Concatenation(1)]

\* The clients that contain the tool.
ClientsWith(toolName) ==
    {c \in 1..Len(clients) : ContainsTool(c, toolName)}

\* C15: every lookup returned the first-registered client that contains the
\* name, nil if and only if no client contains it, and two lookups of a name
\* returned the same client.
C15_FirstRegisteredWins ==
    /\ \A n \in 1..Len(lookups) :
          LET l == lookups[n]
          IN  /\ l.client = 0 <=> ClientsWith(l.toolName) = {}
              /\ l.client # 0 =>
                    /\ l.client \in ClientsWith(l.toolName)
                    /\ \A c \in ClientsWith(l.toolName) : l.client <= c
    /\ \A n, m \in 1..Len(lookups) :
          lookups[n].toolName = lookups[m].toolName =>
              lookups[n].client = lookups[m].client

\* C15 witness: a name two clients contain has been looked up twice, and a
\* name no client contains once.
C15_Witness ==
    /\ Len(clients) = 2
    /\ \E n, m \in 1..Len(lookups) :
          /\ n # m
          /\ Cardinality(ClientsWith(lookups[n].toolName)) = 2
          /\ lookups[n].client = 1
          /\ lookups[m].client = 0

\* C13: the update channel is closed at most once, no event is sent on it
\* once it is closed, and when main has ended, on whatever path, it has been
\* closed.
C13_ClosedOnce ==
    /\ update.closes <= 1
    /\ ~update.sentClosed
    /\ mainPc = "exited" => update.closes = 1

\* C13 witness: main has ended after a Request that sent events and
\* returned an error.
C13_Witness ==
    /\ mainPc = "exited"
    /\ update.closes = 1
    /\ update.sent = 2
    /\ requestRet = "Maximum iteration count was exhausted."

\* The servers set up before the one SummonFigaro stands at.
EarlierServers == 1..(srv - 1)

\* C16: when SummonFigaro has returned an error and its watchers have
\* nothing left to do, connCtx and rpcCtx of every server set up before the
\* failing one are cancelled.
C16_FailureCancelsEarlier ==
    (summoned # None /\ summoned.err # "nil" /\ ~ENABLED WatcherStep) =>
        \A s \in EarlierServers :
            connCtx[s] = "cancelled" /\ rpcCtx[s] = "cancelled"

\* C17: SummonFigaro returns a nil Figaro exactly when it returns an error,
\* and without an error the Figaro holds, for every server definition and in
\* the order of the registry, the client initialized for it.
C17_SummonResult ==
    summoned # None =>
        /\ summoned.figaro = None <=> summoned.err # "nil"
        /\ summoned.err = "nil" =>
              summoned.figaro.clients =
                  [s \in 1..Len(servers.DockerServers) |->
                      ClientOf(servers.DockerServers[s])]

\* C17 witness: SummonFigaro has returned the Figaro of two different servers.
C17_Witness ==
    /\ summoned # None
    /\ summoned.err = "nil"
    /\ Len(servers.DockerServers) = 2
    /\ servers.DockerServers[1] # servers.DockerServers[2]

\* C18: when the completion signal of a transport has fired with an error
\* and neither SummonFigaro nor a watcher has anything left to do,
\* SummonFigaro's context is cancelled with that error as its cause.
C18_TransportFailureCancels ==
    \A s \in Servers :
        (connDone[s] \notin {"unset", "pending", "nil"}
            /\ ~ENABLED (SummonStep \/ WatcherStep))
        => rootCause = connDone[s]

\* C19: when Request has returned an error and main has made its cancel
\* call, SummonFigaro's context is cancelled with that error as its cause.
C19_RequestErrorIsCause ==
    (requestRet \notin {"none", "nil"} /\ mainPc \in {"deferred", "exited"})
        => rootCause = requestRet

\* C20: when SummonFigaro's context is cancelled, SummonFigaro has returned
\* and the watchers have nothing left to do, the connCtx and the rpcCtx of
\* every server that has one are cancelled.
C20_CancellationFansOut ==
    (rootCause # NotCancelled /\ mainPc = "summoned" /\ ~ENABLED WatcherStep) =>
        \A s \in Servers :
            /\ connCtx[s] # "none" => connCtx[s] = "cancelled"
            /\ rpcCtx[s] # "none" => rpcCtx[s] = "cancelled"

C22_CancelStopsRequest ==
    [][rootCause # NotCancelled =>
          /\ ~(pc = "handleStream" /\ pc' = "sendProgress")
          /\ streams' = streams
          /\ Len(dispatched') <= Len(dispatched)]_vars

\* C23: when the update channel is closed, the context SummonFigaro made (if
\* it was called) has been cancelled and the completion signal of every
\* transport that was set up has fired.
C23_ShutdownOrder ==
    update.closes > 0 =>
        /\ summoned # None => rootCause # NotCancelled
        /\ \A s \in Servers : connDone[s] # "pending"

\* C24: when Request has returned without error in a run where no write of
\* the host file fails, the conversation last written to the host file is
\* the whole final conversation.
C24_SinkHoldsConversation ==
    (pc = "done" /\ err = "nil" /\ env = "rich") => sink = Written(conversation)

\* A step in which handleStream returns the message of a stream that
\* agentLoop requested.
RestreamReturns == inLoop /\ pc \in {"awaitResult", "sendEnded"} /\ pc' # pc

\* C25: when the restream of an iteration has returned its message, the
\* iteration ends in the same way whether the write of the host file
\* succeeds or fails: the message is appended, the counter incremented, no
\* error is returned and agentLoop goes on; a failed write only leaves the
\* host file as it was.
C25_WriteFailureIgnored ==
    [][RestreamReturns =>
          /\ pc' = "agentLoop"
          /\ err' = None
          /\ i' = i + 1
          /\ conversation' = appendMessage(conversation, message')
          /\ sink' \in {Written(conversation'), sink}]_vars

\* C25 witness: every write of the host file failed, and the Request went
\* through three iterations and returned without error.
C25_Witness ==
    /\ pc = "done"
    /\ err = "nil"
    /\ i = 3
    /\ sink = None

\* The errors of a failed LLM stream, an unknown tool, the iteration bound
\* and a failed transport of a tools/call.
FatalErrors ==
    {"LLM stream error", "Could not find mcp client for nope",
     "Maximum iteration count was exhausted.", "connection closed"}

\* C26: when Request has returned one of these errors, the last event it
\* sent on the update channel is a task_failed event.
C26_FailureEvent ==
    (pc = "done" /\ err \in FatalErrors) =>
        /\ events # <<>>
        /\ events[Len(events)].type = "task_failed"

\* The exit code of the process when main has ended: 0 when main returned,
\* 2 when it ended in a panic.
ExitCode == IF panicking THEN 2 ELSE 0

\* C27: the process ends with code 0 when Request returned no error, and
\* with code 1 when the server registry could not be loaded, SummonFigaro
\* returned an error or Request returned one.
C27_ExitStatus ==
    mainPc = "exited" =>
        /\ requestRet = "nil" => ExitCode = 0
        /\ (\/ servers = None
            \/ (summoned # None /\ summoned.err # "nil")
            \/ requestRet \notin {"none", "nil"}) => ExitCode = 1

\* C28: the user turn agentLoop appends holds, for every tools/call that
\* returned a result not flagged isError, a tool_result block with the id of
\* the tool_use block and, as its content, the text of the result.
C28_ToolResultText ==
    [][ToolResultsAppended =>
          \A id \in DOMAIN tools :
              ~tools[id].result.isError =>
                  \E p \in 1..Len(LastTurn(conversation').content) :
                      LastTurn(conversation').content[p] =
                          ToolResultBlock(id, ResultText(tools[id]))]_vars

\* C29: the turns of the conversation are user and assistant turns in
\* alternation, the first a user turn; and when Request has returned without
\* error after i tool rounds (each one restream), the conversation has
\* 2i + 2 turns.
C29_ConversationShape ==
    /\ \A n \in 1..Len(conversation) :
          conversation[n].role = (IF n % 2 = 1 THEN "user" ELSE "assistant")
    /\ (pc = "done" /\ err = "nil") =>
          /\ streams = i + 1
          /\ Len(conversation) = 2 * i + 2

\* C29 witness: Request has returned without error after one tool round that
\* answered two tool_use blocks.
C29_Witness ==
    /\ pc = "done"
    /\ err = "nil"
    /\ i = 1
    /\ Len(conversation) = 4
    /\ Len(conversation[3].content) = 2

\* The clients whose server answered tools/list without tools: their cached
\* catalogue is nil, which len and range take for empty.
ClientsWithoutTools == {c \in 1..Len(clients) : clients[c] = <<>>}

\* C30: in a registry with a client without tools, GetAllTools returns the
\* tools of the other clients and nothing for that client, and no lookup
\* returns that client.
C30_NullToolsTolerated ==
    ClientsWithoutTools # {} =>
        /\ got # None => (got.ok /\ got.tools = Concatenation(1))
        /\ \A n \in 1..Len(lookups) :
              lookups[n].client \notin ClientsWithoutTools

\* callTools stands at a tool_use block for a tool a client contains, whose
\* input is no JSON object.
AtBadInput ==
    /\ AtBlock
    /\ message.content[k].type = "tool_use"
    /\ GetClientForTool(message.content[k].name) # 0
    /\ ~UnmarshalOk(message.content[k].input)

\* C31: a tool_use block whose input is no JSON object does not fail the
\* agent loop: callTools keeps a response for the id of the block, to be
\* turned into its tool_result, and goes on.
C31_BadInputLocal ==
    [][AtBadInput =>
          /\ pc' = "callTools"
          /\ message.content[k].id \in DOMAIN tools']_vars

\* ------------------------------------------------------- model selection

\* anthropic.ModelClaude3_7SonnetLatest
ModelClaude3_7SonnetLatest == "claude-3-7-sonnet-latest"

\* The values of the -m flag: its default, and two model ids.
ModelFlags ==
    {"ModelClaude3_7SonnetLatest", "claude-3-5-haiku-latest",
     ModelClaude3_7SonnetLatest}

GetMessageNewParams(conv, tls) ==
    [MaxTokens |-> 1024,
     Messages |-> conv,
     Model |-> ModelClaude3_7SonnetLatest,
     Tools |-> tls]

\* The conversations of the first request and of a restream.
RequestConversations ==
    {<<createMessageParam(Join(Args), "user")>>,
     <<createMessageParam(Join(Args), "user"),
       Turn("assistant", <<TextBlock("hi")>>, "end_turn")>>}

\* streamMessage builds the parameters of an LLM request; Request was given
\* modePtr by main and hands it to nothing.
streamMessageParams ==
    /\ Len(requests) < MaxRequests
    /\ \E conv \in RequestConversations, tls \in Catalogues(MaxTools) :
          requests' = Append(requests, GetMessageNewParams(conv, tls))
    /\ UNCHANGED <<modePtr, peer, watcherPc, forum, la, agentVars, toolsCache, registryVars,
                   supervisorVars>>

\* An invocation with any value of the -m flag.
ModelInit ==
    /\ modePtr \in ModelFlags
    /\ requests = <<>>
    /\ peer = PeerFresh
    /\ AgentIdle
    /\ clients = <<>>
    /\ toolsCache = None
    /\ got = None
    /\ lookups = <<>>
    /\ SupervisorIdle
    /\ watcherPc = <<>>
    /\ forum = ForumFresh
    /\ la = LaFresh

ModelNext ==
    \/ streamMessageParams

ModelSpec == ModelInit /\ [][ModelNext]_vars

\* C32: the model id of every LLM request of an invocation whose -m flag
\* names a model id is that model id.
C32_ModelFromFlag ==
    modePtr # "ModelClaude3_7SonnetLatest" =>
        \A n \in 1..Len(requests) : requests[n].Model = modePtr

\* ------------------------------------------------------- JSON-RPC peer

\* The payload the server answers the request with the id with.
PayloadFor(id) == "result of " \o ToString(id)

\* What a slot is completed with: the payload of a response, or an error.
Completed(kind, value) == [kind |-> kind, value |-> value]

\* CompleteAll, leaving the completed slots in the table.
CompleteAllKeep(error) ==
    [peer EXCEPT
        !.state = "closed",
        !.done = [id \in DOMAIN peer.done |->
                     IF id \in peer.pending
                     THEN Append(peer.done[id], Completed("error", error))
                     ELSE peer.done[id]]]

\* Every pending slot is completed with the error and removed from the
\* table, and the peer is closed.
CompleteAll(error) ==
    [peer EXCEPT
        !.state = "closed",
        !.pending = {},
        !.done = [id \in DOMAIN peer.done |->
                     IF id \in peer.pending
                     THEN Append(peer.done[id], Completed("error", error))
                     ELSE peer.done[id]]]

\* SlotFor, taking the oldest pending slot for the slot of the response.
SlotForOldest(response) ==
    IF peer.pending = {} THEN response.id
    ELSE CHOOSE id \in peer.pending : \A other \in peer.pending : id <= other

\* The slot the reader completes with a response: the one of its id.
SlotFor(response) == response.id

\* call: a fresh id is allocated and its slot inserted; the line is written
\* next.
PeerCallInsert ==
    /\ peer.state = "open"
    /\ peer.nextId <= MaxCalls
    /\ peer' = [peer EXCEPT
                   !.nextId = @ + 1,
                   !.pending = @ \cup {peer.nextId},
                   !.writing = @ \cup {peer.nextId},
                   !.done = Append(@, <<>>)]
    /\ UNCHANGED <<modePtr, requests, watcherPc, forum, la, agentVars, toolsCache, registryVars,
                   supervisorVars>>

\* call: the line of the request is written, and the caller waits on its
\* slot; a write that fails (as any write on a closed peer does) completes
\* every pending slot with ConnectionClosed.
PeerCallWrite ==
    /\ \E id \in peer.writing :
          \E written \in (IF peer.state = "open" THEN BOOLEAN ELSE {FALSE}) :
              IF written
              THEN peer' = [peer EXCEPT !.writing = @ \ {id},
                                        !.server = @ \cup {id}]
              ELSE peer' = [CompleteAll("ConnectionClosed")
                               EXCEPT !.writing = @ \ {id}]
    /\ UNCHANGED <<modePtr, requests, watcherPc, forum, la, agentVars, toolsCache, registryVars,
                   supervisorVars>>

\* The server answers one of the requests it has, whichever it likes.
ServerResponds ==
    /\ \E id \in peer.server :
          peer' = [peer EXCEPT
                      !.server = @ \ {id},
                      !.answered = @ \cup {id},
                      !.inbound = Append(@, [id |-> id, payload |-> PayloadFor(id)])]
    /\ UNCHANGED <<modePtr, requests, watcherPc, forum, la, agentVars, toolsCache, registryVars,
                   supervisorVars>>

\* The server sends the response of a request it has answered once more.
ServerRepeats ==
    /\ peer.repeats < MaxDuplicates
    /\ \E id \in peer.answered :
          peer' = [peer EXCEPT
                      !.repeats = @ + 1,
                      !.inbound = Append(@, [id |-> id, payload |-> PayloadFor(id)])]
    /\ UNCHANGED <<modePtr, requests, watcherPc, forum, la, agentVars, toolsCache, registryVars,
                   supervisorVars>>

\* The reader takes the next line, a response: the slot of its id is
\* completed with its payload and removed; a response whose id has no slot
\* is logged and dropped.
ReaderDispatch ==
    /\ peer.state = "open"
    /\ peer.inbound # <<>>
    /\ LET response == Head(peer.inbound)
           id == SlotFor(response)
       IN  peer' = IF id \in peer.pending
                   THEN [peer EXCEPT
                            !.inbound = Tail(@),
                            !.read = Append(@, response.id),
                            !.pending = @ \ {id},
                            !.done[id] = Append(@, Completed("response", response.payload))]
                   ELSE [peer EXCEPT !.inbound = Tail(@),
                                     !.read = Append(@, response.id)]
    /\ UNCHANGED <<modePtr, requests, watcherPc, forum, la, agentVars, toolsCache, registryVars,
                   supervisorVars>>

\* The reader finds the end of the stream.
ReaderEndOfStream ==
    /\ peer.state = "open"
    /\ peer' = CompleteAll("ConnectionClosed")
    /\ UNCHANGED <<modePtr, requests, watcherPc, forum, la, agentVars, toolsCache, registryVars,
                   supervisorVars>>

\* The connection is cancelled.
PeerCancelled ==
    /\ peer.state = "open"
    /\ peer' = CompleteAll("cancelled")
    /\ UNCHANGED <<modePtr, requests, watcherPc, forum, la, agentVars, toolsCache, registryVars,
                   supervisorVars>>

PeerInit ==
    /\ peer = PeerFresh
    /\ modePtr = "ModelClaude3_7SonnetLatest"
    /\ requests = <<>>
    /\ AgentIdle
    /\ clients = <<>>
    /\ toolsCache = None
    /\ got = None
    /\ lookups = <<>>
    /\ SupervisorIdle
    /\ watcherPc = <<>>
    /\ forum = ForumFresh
    /\ la = LaFresh

PeerNext ==
    \/ PeerCallInsert
    \/ PeerCallWrite
    \/ ServerResponds
    \/ ServerRepeats
    \/ ReaderDispatch
    \/ ReaderEndOfStream
    \/ PeerCancelled

PeerSpec == PeerInit /\ [][PeerNext]_vars

\* The ids allocated on the peer.
PeerIds == DOMAIN peer.done

\* C33: whatever the order in which the server answers, a caller that
\* completes with a response completes with the payload of the response to
\* its own request, and the slot of a request whose response the reader has
\* dispatched while the peer was open is completed with it.
C33_OutOfOrderCorrelation ==
    /\ \A id \in PeerIds :
          \A n \in 1..Len(peer.done[id]) :
              peer.done[id][n].kind = "response" =>
                  peer.done[id][n].value = PayloadFor(id)
    /\ \A n \in 1..Len(peer.read) :
          /\ peer.done[peer.read[n]] # <<>>
          /\ peer.done[peer.read[n]][1] \in
                {Completed("response", PayloadFor(peer.read[n])),
                 Completed("error", "ConnectionClosed"),
                 Completed("error", "cancelled")}

\* C33 witness: three calls were pending together, the server answered them
\* in the order 3, 1, 2, and each caller completed with its own payload.
C33_Witness ==
    /\ peer.read = <<3, 1, 2>>
    /\ \A id \in 1..3 :
          peer.done[id] = <<Completed("response", PayloadFor(id))>>

DispatchFails == pc \in {"callTools", "SendMessage"} /\ pc' = "done"

\* C35: when the dispatch of a tool_use block fails, the conversation still
\* ends with the assistant turn that asked for the tools, no LLM stream is
\* requested and the host file is not written: Request returns in that step.
C35_NoPartialRound ==
    [][DispatchFails =>
          /\ conversation' = conversation
          /\ LastTurn(conversation').role = "assistant"
          /\ streams' = streams
          /\ sink' = sink]_vars

\* C35 witness: the first tool_use block of a turn was answered, the second
\* named an unknown tool, and Request has returned that error.
C35_Witness ==
    /\ pc = "done"
    /\ err = "Could not find mcp client for nope"
    /\ k = 2
    /\ Len(dispatched) = 1
    /\ dispatched[1] \in DOMAIN tools

\* C36: a list GetAllTools returned is without a zero-valued entry, and a
\* name occurs in it exactly when GetClientForTool finds a client for it.
C36_CatalogueLookupAgree ==
    (got # None /\ got.ok) =>
        /\ \A n \in 1..Len(got.tools) : got.tools[n] # ZeroTool
        /\ \A toolName \in LookupNames :
              (\E n \in 1..Len(got.tools) : got.tools[n] = toolName)
                  <=> GetClientForTool(toolName) # 0

\* ------------------------------------------------------- watcher goroutines

\* The two watcher goroutines of a server, by the context each watches
\* beside SummonFigaro's.
Watchers == {"conn", "rpc"}

\* The context of server s that watcher w selects on.
OwnCtx(s, w) == IF w = "conn" THEN connCtx[s] ELSE rpcCtx[s]

\* Where a watcher stands after the break of a case: break leaves the
\* select, and the for loop around it starts over.
AfterBreak == "select"

\* select, case <-ctx.Done()
watchSelectRoot ==
    /\ \E s \in DOMAIN watcherPc, w \in Watchers :
          /\ watcherPc[s][w] = "select"
          /\ rootCause # NotCancelled
          /\ watcherPc' = [watcherPc EXCEPT ![s][w] = "ctxDone"]
    /\ UNCHANGED <<modePtr, requests, peer, forum, la, agentVars, toolsCache, registryVars,
                   supervisorVars>>

\* select, case <-connCtx.Done() or case <-rpcCtx.Done()
watchSelectOwn ==
    /\ \E s \in DOMAIN watcherPc, w \in Watchers :
          /\ watcherPc[s][w] = "select"
          /\ OwnCtx(s, w) = "cancelled"
          /\ watcherPc' = [watcherPc EXCEPT ![s][w] = "ownDone"]
    /\ UNCHANGED <<modePtr, requests, peer, forum, la, agentVars, toolsCache, registryVars,
                   supervisorVars>>

\* cancelConn(); break (in both watchers)
watchRootBody ==
    /\ \E s \in DOMAIN watcherPc, w \in Watchers :
          /\ watcherPc[s][w] = "ctxDone"
          /\ connCtx' = [connCtx EXCEPT ![s] = "cancelled"]
          /\ watcherPc' = [watcherPc EXCEPT ![s][w] = AfterBreak]
    /\ UNCHANGED <<mainPc, servers, srv, rpcCtx, connDone, rootCause,
                   mcpClients, unwind, summoned, deferred, panicking, update,
                   requestRet, modePtr, requests, peer, forum, la,
                   agentVars, toolsCache, registryVars>>

\* cancel(connCtx.Err()) or cancel(rpcCtx.Err()); break
watchOwnBody ==
    /\ \E s \in DOMAIN watcherPc, w \in Watchers :
          /\ watcherPc[s][w] = "ownDone"
          /\ rootCause' = cancel("context canceled")
          /\ watcherPc' = [watcherPc EXCEPT ![s][w] = AfterBreak]
    /\ UNCHANGED <<mainPc, servers, srv, connCtx, rpcCtx, connDone,
                   mcpClients, unwind, summoned, deferred, panicking, update,
                   requestRet, modePtr, requests, peer, forum, la,
                   agentVars, toolsCache, registryVars>>

\* The caller cancels; the watchers stay where they are.
watchCallerCancel ==
    /\ CallerCancel
    /\ UNCHANGED watcherPc

\* SummonFigaro has returned the Figaro of one server or more, every watcher
\* at its select.
WatcherInit ==
    /\ \E r \in ServerRegistries(MaxServers) :
          /\ r # <<>>
          /\ servers = [DockerServers |-> r]
          /\ srv = Len(r)
          /\ connCtx = [s \in 1..Len(r) |-> "live"]
          /\ rpcCtx = [s \in 1..Len(r) |-> "live"]
          /\ connDone = [s \in 1..Len(r) |-> "pending"]
          /\ mcpClients = [s \in 1..Len(r) |-> ClientOf(r[s])]
          /\ watcherPc = [s \in 1..Len(r) |-> [w \in Watchers |-> "select"]]
    /\ mainPc = "summoned"
    /\ rootCause = NotCancelled
    /\ unwind = <<>>
    /\ summoned = [figaro |-> [clients |-> mcpClients], cancel |-> TRUE,
                   err |-> "nil"]
    /\ deferred = <<>>
    /\ panicking = FALSE
    /\ update = [closes |-> 0, sent |-> 0, sentClosed |-> FALSE]
    /\ requestRet = "none"
    /\ modePtr = "ModelClaude3_7SonnetLatest"
    /\ requests = <<>>
    /\ peer = PeerFresh
    /\ AgentIdle
    /\ clients = <<>>
    /\ toolsCache = None
    /\ got = None
    /\ lookups = <<>>
    /\ forum = ForumFresh
    /\ la = LaFresh

WatcherNext ==
    \/ watchSelectRoot
    \/ watchSelectOwn
    \/ watchRootBody
    \/ watchOwnBody
    \/ watchCallerCancel

WatcherSpec == WatcherInit /\ [][WatcherNext]_vars

\* C37: a watcher that has taken a case of its select, having observed the
\* cancellation of SummonFigaro's context or of its own, returns when it has
\* run the case.
C37_WatcherTerminates ==
    [][\A s \in DOMAIN watcherPc, w \in Watchers :
          (watcherPc[s][w] \in {"ctxDone", "ownDone"}
              /\ watcherPc'[s][w] # watcherPc[s][w])
          => watcherPc'[s][w] = "returned"]_vars

\* C38: when the server registry could not be loaded, or SummonFigaro
\* returned an error, main does not panic: it neither dereferences the nil
\* registry nor calls a nil cancel function.
C38_StartupNoCrash ==
    (servers = None \/ (summoned # None /\ summoned.err # "nil"))
        => ~panicking

\* ------------------------------------------------------- forum buffer

\* The n-th text delta of the m-th message of a session.
ForumDelta(m, n) == "m" \o ToString(m) \o DeltaText(n) \o " "

\* The forum goroutine's case for an event: message_started and message_part
\* write the delta to sb; message_ended renders sb.String(), and breaks the
\* loop when the rendering fails.
ForumCase(f, event, renderOk) ==
    CASE event.type \in {"message_started", "message_part"} ->
            [f EXCEPT !.sb = @ \o event.data]
      [] event.type = "message_ended" ->
            [f EXCEPT !.rendered = Append(@, f.sb),
                      !.state = ForumReceive(event, renderOk)]
      [] OTHER -> f

\* handleStream sends the event of a delta, and the forum receives it.
forumSendDelta ==
    /\ forum.state = "running"
    /\ ~forum.returned
    /\ Len(forum.texts) < MaxMessages
    /\ forum.sent < MaxDeltas
    /\ LET evtType == IF ~hasStarted THEN "message_started" ELSE "message_part"
           data == ForumDelta(Len(forum.texts) + 1, forum.sent + 1)
       IN  forum' = [ForumCase(forum, Event(evtType, data), TRUE)
                        EXCEPT !.sent = @ + 1, !.text = @ \o data]
    /\ UNCHANGED <<modePtr, requests, peer, watcherPc, la, agentVars,
                   toolsCache, registryVars, supervisorVars>>

\* handleStream sends message_ended for the message, and the forum receives
\* it.
forumSendEnded ==
    /\ forum.state = "running"
    /\ ~forum.returned
    /\ Len(forum.texts) < MaxMessages
    /\ \E renderOk \in BOOLEAN :
          forum' = [ForumCase(forum, Event("message_ended", ""), renderOk)
                       EXCEPT !.texts = Append(@, forum.text),
                              !.text = "", !.sent = 0]
    /\ UNCHANGED <<modePtr, requests, peer, watcherPc, la, agentVars,
                   toolsCache, registryVars, supervisorVars>>

\* Request returns between two messages; main then cancels and ends.
forumRequestReturns ==
    /\ ~forum.returned
    /\ forum.sent = 0
    /\ forum' = [forum EXCEPT !.returned = TRUE]
    /\ UNCHANGED <<modePtr, requests, peer, watcherPc, la, agentVars,
                   toolsCache, registryVars, supervisorVars>>

\* case <-ctx.Done(): sb.WriteString("___"); break loop
forumCtxDone ==
    /\ forum.state = "running"
    /\ forum.returned
    /\ forum' = [forum EXCEPT !.sb = @ \o "___", !.state = "stopped"]
    /\ UNCHANGED <<modePtr, requests, peer, watcherPc, la, agentVars,
                   toolsCache, registryVars, supervisorVars>>

ForumInit ==
    /\ forum = ForumFresh
    /\ modePtr = "ModelClaude3_7SonnetLatest"
    /\ requests = <<>>
    /\ peer = PeerFresh
    /\ watcherPc = <<>>
    /\ AgentIdle
    /\ clients = <<>>
    /\ toolsCache = None
    /\ got = None
    /\ lookups = <<>>
    /\ SupervisorIdle
    /\ la = LaFresh

ForumNext ==
    \/ forumSendDelta
    \/ forumSendEnded
    \/ forumRequestReturns
    \/ forumCtxDone

ForumSpec == ForumInit /\ [][ForumNext]_vars

\* C39: the text the forum rendered for the m-th message_ended event is the
\* concatenation, in order, of the deltas of the m-th message alone.
C39_RendersMessageAlone ==
    \A m \in 1..Len(forum.rendered) : forum.rendered[m] = forum.texts[m]

\* ------------------------------------------------------- fork resolution

\* loadConversation: the conversation of the file .name.figaro.json, or a new
\* empty conversation when the file does not exist.
loadConversation(files, name) ==
    IF files[name].exists THEN files[name].conv
    ELSE Conversation(name, <<>>, "")

\* Conversation.save: writes the conversation to the file of its name.
save(files, c) ==
    [files EXCEPT ![c.name] = [exists |-> TRUE, conv |-> c]]

\* Conversation.addMessage, without the timestamp and the hashes.
addMessage(c, role, content) ==
    [c EXCEPT !.messages = Append(@, [role |-> role, content |-> content])]

\* The messages of the conversation itself, as toAnthropicMessages converts
\* them: those of role user or assistant.
OwnMessages(c) ==
    SelectSeq(c.messages, LAMBDA msg : msg.role \in {"user", "assistant"})

\* Conversation.toAnthropicMessages: the messages of the parent, resolved by
\* the same function on the conversation loaded from the parent's file, and
\* then the conversation's own. The files do not change during the call, so a
\* name loaded a second time (loaded holds the names loaded so far) is loaded
\* for ever: the recursion has no end and the Go runtime stops the process on
\* stack overflow.
RECURSIVE toAnthropicMessages(_, _, _)
toAnthropicMessages(files, c, loaded) ==
    IF c.parent = "" THEN [ok |-> TRUE, messages |-> OwnMessages(c)]
    ELSE IF c.parent \in loaded THEN [ok |-> FALSE, messages |-> <<>>]
    ELSE LET parentConvo == loadConversation(files, c.parent)
             parentMessages ==
                 toAnthropicMessages(files, parentConvo,
                                     loaded \cup {c.parent})
         IN  IF ~parentMessages.ok THEN parentMessages
             ELSE [ok |-> TRUE,
                   messages |-> parentMessages.messages \o OwnMessages(c)]

\* Figaro.La: one run of the command with -c conversationName, -f forkName
\* and a prompt, the model answering with response; the value is the files
\* and the outcome it leaves.
La(conversationName, forkName, prompt, response) ==
       LET forkFails ==
               /\ forkName # ""
               /\ \/ ~la.files[forkName].exists
                  \/ conversationName = ""
           conv0 ==
               IF forkName # ""
               THEN Conversation(conversationName, <<>>, forkName)
               ELSE IF conversationName # ""
               THEN loadConversation(la.files, conversationName)
               ELSE Conversation("temp", <<>>, "")
           conv1 == addMessage(conv0, "user", prompt)
           files1 == IF conversationName # "" THEN save(la.files, conv1)
                     ELSE la.files
           messages == toAnthropicMessages(files1, conv1, {})
           conv2 == addMessage(conv1, "assistant", response)
           files2 == IF conversationName # "" /\ response # ""
                     THEN save(files1, conv2) ELSE files1
       IN    IF forkFails
             THEN [la EXCEPT !.ret = "error", !.sent = <<>>,
                             !.conv = Conversation("", <<>>, ""),
                             !.runs = @ + 1]
             ELSE IF ~messages.ok
             THEN [files |-> files1, ret |-> "stack overflow",
                   conv |-> conv1, sent |-> <<>>, runs |-> la.runs + 1]
             ELSE [files |-> files2, ret |-> "nil", conv |-> conv1,
                   sent |-> messages.messages, runs |-> la.runs + 1]

\* figaro -c name -f fork prompt
LaFork ==
    /\ la.runs < MaxCommands
    /\ \E conversationName \in ConvNames \cup {""}, forkName \in ConvNames,
          response \in {"", "r"} :
          la' = La(conversationName, forkName,
                   "p" \o ToString(la.runs + 1), response)
    /\ UNCHANGED <<modePtr, requests, peer, watcherPc, forum, agentVars,
                   toolsCache, registryVars, supervisorVars>>

\* figaro -c name prompt
LaNamed ==
    /\ la.runs < MaxCommands
    /\ \E conversationName \in ConvNames, response \in {"", "r"} :
          la' = La(conversationName, "", "p" \o ToString(la.runs + 1),
                   response)
    /\ UNCHANGED <<modePtr, requests, peer, watcherPc, forum, agentVars,
                   toolsCache, registryVars, supervisorVars>>

\* figaro prompt
LaTemp ==
    /\ la.runs < MaxCommands
    /\ \E response \in {"", "r"} :
          la' = La("", "", "p" \o ToString(la.runs + 1), response)
    /\ UNCHANGED <<modePtr, requests, peer, watcherPc, forum, agentVars,
                   toolsCache, registryVars, supervisorVars>>

LaInit ==
    /\ la = LaFresh
    /\ forum = ForumFresh
    /\ modePtr = "ModelClaude3_7SonnetLatest"
    /\ requests = <<>>
    /\ peer = PeerFresh
    /\ watcherPc = <<>>
    /\ AgentIdle
    /\ clients = <<>>
    /\ toolsCache = None
    /\ got = None
    /\ lookups = <<>>
    /\ SupervisorIdle

LaNext ==
    \/ LaFork
    \/ LaNamed
    \/ LaTemp

LaSpec == LaInit /\ [][LaNext]_vars

\* C40: every run of the command that gets to resolve its conversation
\* (its fork, if any, exists) has toAnthropicMessages return, with the
\* parent's resolved messages followed by the conversation's own messages.
C40_ForkResolves ==
    la.ret \notin {"none", "error"} =>
        /\ la.ret = "nil"
        /\ la.sent =
             (IF la.conv.parent = "" THEN <<>>
              ELSE toAnthropicMessages(la.files,
                       loadConversation(la.files, la.conv.parent),
                       {}).messages)
             \o OwnMessages(la.conv)

====
